---- MODULE Spec2Model ----
(***************************************************************************)
(* Server side identity resolver of crypto/server/manager.go:              *)
(* AddCertificateRequest (enrolment), serverPublicKeyResolver              *)
(* (GetPublicKey / SetPublicKey / DeleteSubject over a ttlcache negative   *)
(* cache and the datastore), the ClientDelete listener and the goroutine   *)
(* that closes the cache when the context is cancelled.                    *)
(*                                                                         *)
(* Several callers run the resolver concurrently.  Every call is split at  *)
(* its accesses to shared state (the cache, which is internally locked,    *)
(* and the datastore); purely local statements are merged into the shared  *)
(* access that follows them.                                               *)
(***************************************************************************)
EXTENDS Integers, Sequences, FiniteSets, TLC

\* ------------------------------------------------------------------ bounds
NCallers == 2      \* concurrent callers of the resolver
NKeys    == 2      \* distinct RSA public keys
TickSec  == 5      \* seconds that pass in one Tick

\* time.Duration(10 * time.Second), the default negative cache timeout
DefaultTimeoutSec == 10

Callers == 1..NCallers
Keys    == 1..NKeys
NoKey   == 0       \* a nil *rsa.PublicKey

\* config_obj.OrgId: the root org and one tenant
OrgIds == {"", "O1"}

\* config_obj.Defaults: nil, or UnauthenticatedLruTimeoutSec negative, zero
\* (unset field) or positive
DefaultsChoices ==
    { [present |-> FALSE, UnauthenticatedLruTimeoutSec |-> 0],
      [present |-> TRUE,  UnauthenticatedLruTimeoutSec |-> -1],
      [present |-> TRUE,  UnauthenticatedLruTimeoutSec |-> 0],
      [present |-> TRUE,  UnauthenticatedLruTimeoutSec |-> TickSec] }

\* ------------------------------------------------------- pure functions

\* crypto_utils.ClientIDFromPublicKey: "C." followed by a hash of the key
ClientIDFromPublicKey(k) == "C." \o ToString(k)

\* utils.ClientIdFromConfigObj: the client id qualified by the org id
ClientIdFromConfigObj(client_id, cfg) ==
    IF cfg.OrgId = "" THEN client_id ELSE client_id \o "-" \o cfg.OrgId

CommonNames == { ClientIDFromPublicKey(k) : k \in Keys }

\* every client id any configuration can produce
Ids == { ClientIdFromConfigObj(cn, [OrgId |-> o]) : cn \in CommonNames, o \in OrgIds }

\* crypto_utils.PublicKeyToPem / PemToPublicKey: a PEM block is a type line
\* and a body; decoding fails on anything that is not an RSA public key block
PublicKeyToPem(k) == <<"RSA PUBLIC KEY", k>>
GarbagePem        == <<"", 0>>
PemToPublicKey(pem) ==
    IF pem[1] = "RSA PUBLIC KEY" /\ pem[2] \in Keys
    THEN [err |-> FALSE, key |-> pem[2]]
    ELSE [err |-> TRUE,  key |-> NoKey]

\* crypto_proto.PublicKey as stored per client
NoRecord     == [present |-> FALSE, Pem |-> GarbagePem]
Record(pem)  == [present |-> TRUE,  Pem |-> pem]

\* paths.NewClientPathManager(client_id).Key(): the record's datastore path
Key(client_id) == "/clients/" \o client_id \o "/key"
Paths == { Key(i) : i \in Ids }

\* db.GetSubject(config_obj, path, pem): the record at the path; a missing
\* record is an error
GetSubject(db, path) == [err |-> ~db[path].present, pem |-> db[path].Pem]

\* db.SetSubjectWithCompletion(config_obj, path, pem, nil): overwrites
SetSubject(db, path, pem) == [db EXCEPT ![path] = Record(pem)]

\* ---------------------------------------------------------- ttlcache

\* an item of ttlcache: ttl is the item's time to live (0/negative: never
\* expires), left the seconds until expireAt
NoItem          == [present |-> FALSE, ttl |-> 0, left |-> 0]
NewItem(ttl)    == [present |-> TRUE,  ttl |-> ttl, left |-> ttl]
Expired(item)   == item.ttl > 0 /\ item.left < 0
\* the item Get(key) finds: present and not expired, on an open cache
Live(lru, id)   == /\ ~lru.isShutDown
                   /\ lru.items[id].present
                   /\ ~Expired(lru.items[id])

\* a Get whose hit always renews the deadline
LruGet_ExtendsOnHit(lru, id) ==
    [err |-> ~Live(lru, id),
     lru |-> IF Live(lru, id) /\ lru.items[id].ttl > 0
             THEN [lru EXCEPT !.items[id].left = lru.items[id].ttl]
             ELSE lru]

\* a Get that finds an item whatever its deadline
LruGet_IgnoreExpiry(lru, id) ==
    [err |-> lru.isShutDown \/ ~lru.items[id].present, lru |-> lru]

\* negative_lru.Get(client_id): err == nil iff a live item is found; a hit
\* extends the deadline unless SkipTTLExtensionOnHit was set
LruGet(lru, id) ==
    [err |-> ~Live(lru, id),
     lru |-> IF Live(lru, id) /\ lru.items[id].ttl > 0 /\ ~lru.skipTTLExtension
             THEN [lru EXCEPT !.items[id].left = lru.items[id].ttl]
             ELSE lru]

\* a Set that stores nothing
LruSet_NoInsert(lru, id) == lru

\* negative_lru.Set(client_id, true): the item gets the cache's TTL and a
\* deadline counted from now; ErrClosed (ignored by the caller) when closed
LruSet(lru, id) ==
    IF lru.isShutDown THEN lru
    ELSE [lru EXCEPT !.items[id] = NewItem(lru.ttl)]

\* a Remove that empties the cache
LruRemove_Purge(lru, id) ==
    IF lru.isShutDown THEN lru
    ELSE [lru EXCEPT !.items = [i \in Ids |-> NoItem]]

\* a Remove that leaves the item in place
LruRemove_NoOp(lru, id) == lru

\* negative_lru.Remove(client_id); ErrClosed (ignored) when closed
LruRemove(lru, id) ==
    IF lru.isShutDown THEN lru
    ELSE [lru EXCEPT !.items[id] = NoItem]

\* negative_lru.Close(): stops the expiry goroutine and purges the items
LruClose(lru) ==
    [lru EXCEPT !.isShutDown = TRUE, !.items = [i \in Ids |-> NoItem]]

\* NewServerPublicKeyResolver: the cache and whether the closing goroutine
\* was started (wg.Add(1))
NewServerPublicKeyResolver(cfg) ==
    LET fresh == [items |-> [i \in Ids |-> NoItem], ttl |-> 0,
                  skipTTLExtension |-> FALSE, isShutDown |-> FALSE]
        d == cfg.Defaults
    IN IF d.present /\ d.UnauthenticatedLruTimeoutSec < 0
       THEN [negative_lru |-> fresh, closer |-> "none", wg |-> 0]
       ELSE LET timeout == IF d.present /\ d.UnauthenticatedLruTimeoutSec > 0
                           THEN d.UnauthenticatedLruTimeoutSec
                           ELSE DefaultTimeoutSec
            IN [negative_lru |-> [fresh EXCEPT !.ttl = timeout,
                                               !.skipTTLExtension = TRUE],
                closer |-> "waiting", wg |-> 1]

\* what construction depends on besides the TTL: config_obj.Frontend set,
\* its certificate parseable, client.NewCryptoManager succeeding and
\* journal.WatchQueueWithCB succeeding
Setups == [frontend : BOOLEAN, cert_ok : BOOLEAN, base_ok : BOOLEAN,
           watch_ok : BOOLEAN]

\* NewServerCryptoManager, lines 72-119: the values returned, whether the
\* resolver was built on the way (line 86) and the state of the subscription
NewServerCryptoManager(cfg, setup) ==
    IF ~setup.frontend
    THEN [returned |-> FALSE, err |-> "No frontend config",
          resolver |-> FALSE, listener |-> "none"]
    ELSE IF ~setup.cert_ok
    THEN [returned |-> FALSE, err |-> "certificate",
          resolver |-> FALSE, listener |-> "none"]
    ELSE IF ~setup.base_ok
    THEN [returned |-> FALSE, err |-> "crypto manager",
          resolver |-> TRUE, listener |-> "none"]
    ELSE [returned |-> TRUE, err |-> "", resolver |-> TRUE,
          listener |-> IF setup.watch_ok THEN "watching" ELSE "failed"]

\* ------------------------------------------------------------------ state
VARIABLES
    config_obj,    \* the configuration the manager was built with
    manager,       \* what NewServerCryptoManager returned
    negative_lru,  \* serverPublicKeyResolver.negative_lru
    store,         \* the datastore: path -> crypto_proto.PublicKey
    pc,            \* each caller's position inside its call
    frame,         \* each caller's arguments and locals
    ev,            \* what the last step returned or did (NoEv: nothing to tell)
    listener,      \* the WatchQueueWithCB subscription
    ctx_done,      \* ctx.Done() is closed
    closer,        \* the goroutine of NewServerPublicKeyResolver
    wg,            \* the wait group's counter
    bound_by,      \* history: caller whose SetPublicKey wrote the record
    last_bound,    \* history: key of the last successful SetPublicKey
    rebound,       \* history: the last successful SetPublicKey replaced
                   \* another key
    evicted,       \* history: "yes" once DeleteSubject removed a live item,
                   \* "looked" during the first lookup after that, else "no"
    pre_neg,       \* history: a live item existed when the caller's
                   \* SetPublicKey began
    after_bad,     \* history: "bad" right after the callback got a row
                   \* without ClientId, "good_after_bad" right after the
                   \* callback that followed it got a row with one
    first_left     \* history: seconds left until the deadline that the
                   \* first insertion of the id's present item computed

hist == <<bound_by, last_bound, rebound, evicted, pre_neg, after_bad,
          first_left>>
vars == <<config_obj, manager, negative_lru, store, pc, frame, ev, listener,
          ctx_done, closer, wg, bound_by, last_bound, rebound, evicted,
          pre_neg, after_bad, first_left>>

NoFrame ==
    [op |-> "none", client_id |-> "", key |-> NoKey, common_name |-> "",
     reads |-> 0]

\* no deadline recorded for an id
NoDeadline == [set |-> FALSE, left |-> 0]

NoEv ==
    [kind |-> "none", caller |-> 0, client_id |-> "", found |-> FALSE, ret_key |-> NoKey, err |-> "", ret_id |-> "",
     path |-> "", reads |-> 0, saw_key |-> NoKey, lru_at_get |-> ""]

\* the client ids callers of this manager use
ClientIds == { ClientIdFromConfigObj(cn, config_obj) : cn \in CommonNames }

\* the key the store holds for exactly this client id (NoKey: no record, or
\* a record that is no RSA public key)
StoredKey(db, id) ==
    IF db[Key(id)].present /\ \E k \in Keys : db[Key(id)].Pem = PublicKeyToPem(k)
    THEN CHOOSE k \in Keys : db[Key(id)].Pem = PublicKeyToPem(k)
    ELSE NoKey

\* the state after NewServerCryptoManager: when construction stops before
\* line 86 no resolver exists, its cache is never used and no goroutine runs
Init ==
    /\ config_obj \in [OrgId : OrgIds, Defaults : DefaultsChoices]
    /\ \E setup \in Setups :
          LET m == NewServerCryptoManager(config_obj, setup)
              r == NewServerPublicKeyResolver(config_obj)
          IN /\ manager = [returned |-> m.returned, err |-> m.err]
             /\ listener = m.listener
             /\ negative_lru = r.negative_lru
             /\ closer = IF m.resolver THEN r.closer ELSE "none"
             /\ wg = IF m.resolver THEN r.wg ELSE 0
    /\ store \in [Paths -> {NoRecord, Record(GarbagePem)}]
    /\ \A i \in Ids \ ClientIds : ~store[Key(i)].present
    /\ pc = [c \in Callers |-> "idle"]
    /\ frame = [c \in Callers |-> NoFrame]
    /\ ev = NoEv
    /\ ctx_done = FALSE
    /\ bound_by = [i \in Ids |-> 0]
    /\ last_bound = [i \in Ids |-> NoKey]
    /\ rebound = [i \in Ids |-> FALSE]
    /\ evicted = [i \in Ids |-> "no"]
    /\ pre_neg = [c \in Callers |-> FALSE]
    /\ after_bad = "no"
    /\ first_left = [i \in Ids |-> NoDeadline]

\* ------------------------------------------------------------ GetPublicKey

\* what negative_lru.Get met
LruAtGet(lru, id) ==
    IF lru.isShutDown THEN "closed"
    ELSE IF Live(lru, id) THEN "hit"
    ELSE IF lru.items[id].present THEN "expired"
    ELSE "absent"

\* GetPublicKey, lines 138-141: the negative cache is asked first and a hit
\* returns (nil, false)
GetPublicKey(c, id) ==
    /\ pc[c] = "idle"
    /\ LET got == LruGet(negative_lru, id)
           e   == [NoEv EXCEPT !.caller = c, !.client_id = id,
                               !.lru_at_get = LruAtGet(negative_lru, id)]
       IN /\ negative_lru' = got.lru
          /\ IF ~got.err
             THEN /\ pc' = pc
                  /\ frame' = frame
                  /\ ev' = [e EXCEPT !.kind = "GetPublicKey",
                                     !.path = "negative_hit"]
             ELSE /\ pc' = [pc EXCEPT ![c] = "db"]
                  /\ frame' = [frame EXCEPT ![c] =
                        [NoFrame EXCEPT !.op = "GetPublicKey", !.client_id = id]]
                  /\ ev' = [e EXCEPT !.kind = "get_miss"]
    /\ UNCHANGED <<config_obj, manager, store, listener, ctx_done, closer, wg>>

\* the tests without the one of the decoding (lines 156-160)
ReadOrDecodeFails_NoDecode(read_err, got, dec) == read_err \/ got.err

\* GetPublicKey, lines 150-160: the two err != nil tests, of the read and of
\* the decoding
ReadOrDecodeFails(read_err, got, dec) == read_err \/ got.err \/ dec.err

\* GetPublicKey, lines 143-162 without the cache insertion: datastore.GetDB,
\* db.GetSubject and PemToPublicKey.  db_err and read_err are the failures
\* of GetDB and of the read itself in this call.
GetPublicKey_GetSubject(c, db_err, read_err) ==
    /\ pc[c] = "db"
    /\ LET f   == frame[c]
           got == GetSubject(store, Key(f.client_id))
           dec == PemToPublicKey(got.pem)
           e   == [NoEv EXCEPT !.caller = c, !.client_id = f.client_id,
                               !.saw_key = StoredKey(store, f.client_id)]
       IN IF db_err
          THEN /\ pc' = [pc EXCEPT ![c] = "idle"]
               /\ frame' = [frame EXCEPT ![c] = NoFrame]
               /\ ev' = [e EXCEPT !.kind = "GetPublicKey", !.path = "no_db",
                                  !.saw_key = NoKey]
          ELSE IF ReadOrDecodeFails(read_err, got, dec)
          THEN /\ pc' = [pc EXCEPT ![c] = "set"]
               /\ frame' = [frame EXCEPT ![c].reads = f.reads + 1]
               /\ ev' = [e EXCEPT !.kind = "read_miss", !.reads = f.reads + 1,
                                  !.path = IF read_err THEN "read_err"
                                           ELSE IF got.err THEN "no_record"
                                           ELSE "decode_err"]
          ELSE /\ pc' = [pc EXCEPT ![c] = "idle"]
               /\ frame' = [frame EXCEPT ![c] = NoFrame]
               /\ ev' = [e EXCEPT !.kind = "GetPublicKey", !.path = "ok",
                                  !.reads = f.reads + 1,
                                  !.found = TRUE, !.ret_key = dec.key]
    /\ UNCHANGED <<config_obj, manager, negative_lru, store, listener, ctx_done,
                   closer, wg>>

\* GetPublicKey, lines 152-153 and 158-159: negative_lru.Set(client_id, true)
\* and return (nil, false)
GetPublicKey_Set(c) ==
    /\ pc[c] = "set"
    /\ negative_lru' = LruSet(negative_lru, frame[c].client_id)
    /\ pc' = [pc EXCEPT ![c] = "idle"]
    /\ frame' = [frame EXCEPT ![c] = NoFrame]
    /\ ev' = [NoEv EXCEPT !.kind = "GetPublicKey", !.caller = c,
                          !.client_id = frame[c].client_id,
                          !.path = "miss", !.reads = frame[c].reads]
    /\ UNCHANGED <<config_obj, manager, store, listener, ctx_done, closer, wg>>

\* ------------------------------------------------------------ SetPublicKey

\* SetPublicKey without line 169
SetPublicKey_NoRemove(c, id, k) ==
    /\ pc[c] = "idle"
    /\ frame' = [frame EXCEPT ![c] =
           [NoFrame EXCEPT !.op = "SetPublicKey", !.client_id = id, !.key = k]]
    /\ pc' = [pc EXCEPT ![c] = "write"]
    /\ ev' = NoEv
    /\ UNCHANGED <<config_obj, manager, negative_lru, store, listener, ctx_done,
                   closer, wg>>

\* SetPublicKey, line 169: negative_lru.Remove(client_id)
SetPublicKey(c, id, k) ==
    /\ pc[c] = "idle"
    /\ negative_lru' = LruRemove(negative_lru, id)
    /\ frame' = [frame EXCEPT ![c] =
           [NoFrame EXCEPT !.op = "SetPublicKey", !.client_id = id, !.key = k]]
    /\ pc' = [pc EXCEPT ![c] = "write"]
    /\ ev' = NoEv
    /\ UNCHANGED <<config_obj, manager, store, listener, ctx_done, closer, wg>>

\* SetPublicKey, lines 171-182: datastore.GetDB and the write of
\* {Pem, EnrollTime}; for an enrolment AddCertificateRequest, lines 63-69,
\* returns the error or the client id
SetPublicKey_SetSubject(c, db_err, write_err) ==
    /\ pc[c] = "write"
    /\ LET f   == frame[c]
           err == IF db_err THEN "db" ELSE IF write_err THEN "write" ELSE ""
           id  == IF f.op = "AddCertificateRequest" /\ err = ""
                  THEN ClientIdFromConfigObj(f.common_name, config_obj)
                  ELSE ""
       IN /\ store' = IF err = ""
                      THEN SetSubject(store, Key(f.client_id), PublicKeyToPem(f.key))
                      ELSE store
          /\ ev' = [NoEv EXCEPT !.kind = f.op, !.caller = c,
                                !.client_id = f.client_id,
                                !.err = err, !.ret_id = id,
                                !.path = IF err = "" THEN "ok" ELSE "store_err"]
    /\ pc' = [pc EXCEPT ![c] = "idle"]
    /\ frame' = [frame EXCEPT ![c] = NoFrame]
    /\ UNCHANGED <<config_obj, manager, negative_lru, listener, ctx_done, closer,
                   wg>>

\* ---------------------------------------------------- AddCertificateRequest

\* the requests: one that does not parse, and every algorithm, common name
\* and key
MalformedCsr ==
    [wellformed |-> FALSE, PublicKeyAlgorithm |-> "", CommonName |-> "",
     PublicKey |-> NoKey]
CsrPems ==
    {MalformedCsr} \cup
    [wellformed : {TRUE}, PublicKeyAlgorithm : {"RSA", "ECDSA"},
     CommonName : CommonNames, PublicKey : Keys]

\* crypto_utils.ParseX509CSRFromPemStr
ParseX509CSRFromPemStr(csr_pem) == [err |-> ~csr_pem.wellformed, csr |-> csr_pem]

\* the checks with the comparison of the common name made first
CsrError_NameCheckFirst(csr_pem) ==
    LET p == ParseX509CSRFromPemStr(csr_pem)
    IN IF p.err THEN "malformed"
       ELSE IF p.csr.CommonName # ClientIDFromPublicKey(p.csr.PublicKey)
            THEN "Invalid CSR"
       ELSE IF p.csr.PublicKeyAlgorithm # "RSA" THEN "Not RSA algorithm"
       ELSE ""

\* the checks without the comparison of the common name (lines 56-58)
CsrError_NoNameCheck(csr_pem) ==
    LET p == ParseX509CSRFromPemStr(csr_pem)
    IN IF p.err THEN "malformed"
       ELSE IF p.csr.PublicKeyAlgorithm # "RSA" THEN "Not RSA algorithm"
       ELSE ""

\* AddCertificateRequest, lines 31-58: the checks made before the key is
\* bound; "" when the request passes
CsrError(csr_pem) ==
    LET p == ParseX509CSRFromPemStr(csr_pem)
    IN IF p.err THEN "malformed"
       ELSE IF p.csr.PublicKeyAlgorithm # "RSA" THEN "Not RSA algorithm"
       ELSE IF p.csr.CommonName # ClientIDFromPublicKey(p.csr.PublicKey)
            THEN "Invalid CSR"
       ELSE ""

\* an enrolment that binds the key under the common name itself
AddCertificateRequest_BindsCommonName(c, csr_pem) ==
    /\ pc[c] = "idle"
    /\ LET err == CsrError(csr_pem)
       IN IF err # ""
          THEN /\ ev' = [NoEv EXCEPT !.kind = "AddCertificateRequest",
                                     !.caller = c, !.err = err,
                                     !.path = "rejected"]
               /\ UNCHANGED <<negative_lru, pc, frame>>
          ELSE /\ negative_lru' = LruRemove(negative_lru, csr_pem.CommonName)
               /\ frame' = [frame EXCEPT ![c] =
                     [NoFrame EXCEPT !.op = "AddCertificateRequest",
                                     !.client_id = csr_pem.CommonName,
                                     !.key = csr_pem.PublicKey,
                                     !.common_name = csr_pem.CommonName]]
               /\ pc' = [pc EXCEPT ![c] = "write"]
               /\ ev' = NoEv
    /\ UNCHANGED <<config_obj, manager, store, listener, ctx_done, closer, wg>>

\* AddCertificateRequest, lines 31-62: a rejected request returns ("", err);
\* an accepted one enters SetPublicKey (line 169) with the qualified id
AddCertificateRequest(c, csr_pem) ==
    /\ pc[c] = "idle"
    /\ LET err == CsrError(csr_pem)
           id  == ClientIdFromConfigObj(csr_pem.CommonName, config_obj)
       IN IF err # ""
          THEN /\ ev' = [NoEv EXCEPT !.kind = "AddCertificateRequest",
                                     !.caller = c, !.err = err,
                                     !.path = "rejected"]
               /\ UNCHANGED <<negative_lru, pc, frame>>
          ELSE /\ negative_lru' = LruRemove(negative_lru, id)
               /\ frame' = [frame EXCEPT ![c] =
                     [NoFrame EXCEPT !.op = "AddCertificateRequest",
                                     !.client_id = id,
                                     !.key = csr_pem.PublicKey,
                                     !.common_name = csr_pem.CommonName]]
               /\ pc' = [pc EXCEPT ![c] = "write"]
               /\ ev' = NoEv
    /\ UNCHANGED <<config_obj, manager, store, listener, ctx_done, closer, wg>>

\* ----------------------------------------------------------- DeleteSubject

\* DeleteSubject, lines 128-130
DeleteSubject(id) ==
    /\ negative_lru' = LruRemove(negative_lru, id)
    /\ ev' = [NoEv EXCEPT !.kind = "DeleteSubject", !.client_id = id]
    /\ UNCHANGED <<config_obj, manager, store, pc, frame, listener, ctx_done, closer,
                   wg>>

\* a row of Server.Internal.ClientDelete: with or without a ClientId field
Rows ==
    { [pres |-> FALSE, ClientId |-> ""] } \cup
    { [pres |-> TRUE, ClientId |-> i] : i \in ClientIds }

\* a callback that fails on a row without ClientId and ends the subscription
WatchQueueCB_StopsOnMalformed(row) ==
    /\ listener = "watching"
    /\ ~ctx_done
    /\ IF row.pres
       THEN negative_lru' = LruRemove(negative_lru, row.ClientId)
       ELSE UNCHANGED negative_lru
    /\ listener' = IF row.pres THEN listener ELSE "stopped"
    /\ ev' = [NoEv EXCEPT !.kind = "callback", !.client_id = row.ClientId,
                          !.found = row.pres,
                          !.err = IF row.pres THEN "" ELSE "no ClientId"]
    /\ UNCHANGED <<config_obj, manager, store, pc, frame, ctx_done, closer, wg>>

\* NewServerCryptoManager, lines 105-116: the callback of the subscription,
\* run by the journal for one row while the context lives
WatchQueueCB(row) ==
    /\ listener = "watching"
    /\ ~ctx_done
    /\ IF row.pres
       THEN negative_lru' = LruRemove(negative_lru, row.ClientId)
       ELSE UNCHANGED negative_lru
    /\ ev' = [NoEv EXCEPT !.kind = "callback", !.client_id = row.ClientId,
                          !.found = row.pres]
    /\ UNCHANGED <<config_obj, manager, store, pc, frame, listener, ctx_done, closer,
                   wg>>

\* the client removal workflow (outside this package) deletes the record
DeleteRecord(id) ==
    /\ store[Key(id)].present
    /\ store' = [store EXCEPT ![Key(id)] = NoRecord]
    /\ ev' = NoEv
    /\ UNCHANGED <<config_obj, manager, negative_lru, pc, frame, listener, ctx_done,
                   closer, wg>>

\* ------------------------------------------------------- time and shutdown

\* TickSec seconds pass: every deadline comes closer
Tick ==
    /\ negative_lru' = [negative_lru EXCEPT !.items =
           [i \in Ids |->
               LET it == negative_lru.items[i]
               IN IF it.present /\ it.ttl > 0 /\ it.left >= 0
                  THEN [it EXCEPT !.left = it.left - TickSec]
                  ELSE it]]
    /\ ev' = NoEv
    /\ UNCHANGED <<config_obj, manager, store, pc, frame, listener, ctx_done,
                   closer, wg>>

\* ttlcache's expiry goroutine removes an expired item
ExpireSweep(id) ==
    /\ ~negative_lru.isShutDown
    /\ negative_lru.items[id].present
    /\ Expired(negative_lru.items[id])
    /\ negative_lru' = [negative_lru EXCEPT !.items[id] = NoItem]
    /\ ev' = NoEv
    /\ UNCHANGED <<config_obj, manager, store, pc, frame, listener, ctx_done,
                   closer, wg>>

\* the ambient context is cancelled
CancelCtx ==
    /\ ~ctx_done
    /\ ctx_done' = TRUE
    /\ ev' = NoEv
    /\ UNCHANGED <<config_obj, manager, negative_lru, store, pc, frame, listener,
                   closer, wg>>

\* NewServerPublicKeyResolver, lines 214-219: <-ctx.Done(), Close, wg.Done
CloseOnDone ==
    /\ closer = "waiting"
    /\ ctx_done
    /\ negative_lru' = LruClose(negative_lru)
    /\ closer' = "done"
    /\ wg' = wg - 1
    /\ ev' = NoEv
    /\ UNCHANGED <<config_obj, manager, store, pc, frame, listener, ctx_done>>

\* ---------------------------------------------------------------- history

\* the caller whose SetPublicKey wrote the store in this step
Writers == { c \in Callers : pc[c] = "write" /\ pc'[c] = "idle" /\ ev'.path = "ok" }

\* the record's key and writer follow the step just taken
HistBound ==
    IF store' = store /\ ev'.kind \notin {"SetPublicKey", "AddCertificateRequest"}
    THEN UNCHANGED <<last_bound, bound_by>>
    ELSE /\ last_bound' = [i \in Ids |->
               IF \E c \in Writers : frame[c].client_id = i
               THEN frame[CHOOSE c \in Writers : frame[c].client_id = i].key
               ELSE IF store[Key(i)].present /\ ~store'[Key(i)].present THEN NoKey
               ELSE last_bound[i]]
         /\ bound_by' = [i \in Ids |->
               IF \E c \in Writers : frame[c].client_id = i
               THEN CHOOSE c \in Writers : frame[c].client_id = i
               ELSE IF store[Key(i)].present /\ ~store'[Key(i)].present THEN 0
               ELSE bound_by[i]]

\* whether the write of this step replaced another key
HistRebound ==
    IF store' = store THEN UNCHANGED rebound
    ELSE rebound' = [i \in Ids |->
            IF \E c \in Writers : frame[c].client_id = i
            THEN StoredKey(store, i) \notin {NoKey, StoredKey(store', i)}
            ELSE store'[Key(i)].present /\ rebound[i]]

\* the step is the first one of a GetPublicKey call
LookupStarts ==
    ev'.kind = "get_miss" \/ (ev'.kind = "GetPublicKey" /\ ev'.path = "negative_hit")

\* evictions of live items, until the id is looked up again
HistEvicted ==
    IF ev'.kind \in {"DeleteSubject", "callback"} /\ ev'.client_id \in Ids
    THEN evicted' = [evicted EXCEPT ![ev'.client_id] =
                        IF Live(negative_lru, ev'.client_id) THEN "yes" ELSE @]
    ELSE IF LookupStarts
    THEN evicted' = [evicted EXCEPT ![ev'.client_id] =
                        IF @ = "yes" THEN "looked" ELSE "no"]
    ELSE IF ev'.kind = "GetPublicKey"
    THEN evicted' = [evicted EXCEPT ![ev'.client_id] = "no"]
    ELSE UNCHANGED evicted

\* whether a live item existed when a SetPublicKey began
HistPre ==
    IF pc' = pc THEN UNCHANGED pre_neg
    ELSE pre_neg' = [c \in Callers |->
            IF pc[c] = "idle" /\ pc'[c] = "write"
            THEN Live(negative_lru, frame'[c].client_id)
            ELSE IF pc'[c] = "idle" THEN FALSE
            ELSE pre_neg[c]]

\* two callbacks in a row, of a row without and of a row with a ClientId
HistListener ==
    after_bad' = IF ev'.kind # "callback" THEN "no"
                 ELSE IF ~ev'.found THEN "bad"
                 ELSE IF after_bad = "bad" THEN "good_after_bad"
                 ELSE "no"

\* the ids whose negative_lru.Set runs in this step
Setters == { frame[c].client_id : c \in { d \in Callers : pc[d] = "set" /\ pc'[d] = "idle" } }

\* the deadline of the first insertion: recorded when Set finds no live
\* item, kept when Set finds one, counted down with the time, dropped with
\* the item
HistDeadline ==
    IF negative_lru' = negative_lru THEN UNCHANGED first_left
    ELSE first_left' = [i \in Ids |->
            LET old == negative_lru.items[i]
                new == negative_lru'.items[i]
                fl  == first_left[i]
            IN IF ~new.present THEN NoDeadline
               ELSE IF i \in Setters
                    THEN IF Live(negative_lru, i) /\ fl.set THEN fl
                         ELSE [set |-> TRUE, left |-> new.left]
               ELSE IF fl.set /\ fl.left >= 0 /\ new.left = old.left - TickSec
                    THEN [fl EXCEPT !.left = fl.left - TickSec]
               ELSE fl]

\* a step that records the whole history, only the record's writer, only
\* the deadlines, nothing
Hist      == HistBound /\ HistRebound /\ HistEvicted /\ HistPre /\ HistListener
                       /\ UNCHANGED first_left
HistRace  == HistBound /\ UNCHANGED <<rebound, evicted, pre_neg, after_bad,
                                     first_left>>
HistTtl   == HistDeadline /\ UNCHANGED <<bound_by, last_bound, rebound, evicted,
                                        pre_neg, after_bad>>
NoHist    == UNCHANGED hist

\* a manager that was returned and whose listener is subscribed
InitBuilt == Init /\ manager.returned /\ listener = "watching"

\* the manager of one tenant
InitOrg == InitBuilt /\ config_obj.OrgId = "O1"

\* --------------------------------------------------------- specifications

\* the resolver under concurrent callers: lookups, binds, evictions, record
\* deletions and store failures in every interleaving
Next ==
    \/ \E c \in Callers, id \in ClientIds : GetPublicKey(c, id) /\ NoHist
    \/ \E c \in Callers, db_err, read_err \in BOOLEAN :
          GetPublicKey_GetSubject(c, db_err, read_err) /\ NoHist
    \/ \E c \in Callers : GetPublicKey_Set(c) /\ NoHist
    \/ \E c \in Callers, id \in ClientIds, k \in Keys :
          SetPublicKey(c, id, k) /\ NoHist
    \/ \E c \in Callers, db_err, write_err \in BOOLEAN :
          SetPublicKey_SetSubject(c, db_err, write_err) /\ NoHist
    \/ \E id \in ClientIds : DeleteSubject(id) /\ NoHist
    \/ \E row \in Rows : WatchQueueCB(row) /\ NoHist
    \/ \E id \in ClientIds : DeleteRecord(id) /\ NoHist
    \/ Tick /\ NoHist
    \/ \E id \in ClientIds : ExpireSweep(id) /\ NoHist

Spec == InitOrg /\ [][Next]_vars

\* concurrent lookups and binds over a store that does not fail, with the
\* record's writer recorded
NextRace ==
    \/ \E c \in Callers, id \in ClientIds : GetPublicKey(c, id) /\ HistRace
    \/ \E c \in Callers : GetPublicKey_GetSubject(c, FALSE, FALSE) /\ HistRace
    \/ \E c \in Callers : GetPublicKey_Set(c) /\ HistRace
    \/ \E c \in Callers, id \in ClientIds, k \in Keys :
          SetPublicKey(c, id, k) /\ HistRace
    \/ \E c \in Callers : SetPublicKey_SetSubject(c, FALSE, FALSE) /\ HistRace
    \/ \E row \in Rows : WatchQueueCB(row) /\ HistRace
    \/ \E id \in ClientIds : DeleteRecord(id) /\ HistRace
    \/ Tick /\ HistRace
    \/ \E id \in ClientIds : ExpireSweep(id) /\ HistRace

SpecRace == InitOrg /\ [][NextRace]_vars

\* the whole manager with one call at a time: enrolment, lookups, binds,
\* evictions, the listener, record deletions, failing writes, time and
\* shutdown, over reads that do not fail, with the history recorded
NextSeq ==
    \/ \E id \in ClientIds : GetPublicKey(1, id) /\ Hist
    \/ GetPublicKey_GetSubject(1, FALSE, FALSE) /\ Hist
    \/ GetPublicKey_Set(1) /\ Hist
    \/ \E id \in ClientIds, k \in Keys : SetPublicKey(1, id, k) /\ Hist
    \/ \E db_err, write_err \in BOOLEAN :
          SetPublicKey_SetSubject(1, db_err, write_err) /\ Hist
    \/ \E csr_pem \in CsrPems : AddCertificateRequest(1, csr_pem) /\ Hist
    \/ \E id \in ClientIds : DeleteSubject(id) /\ Hist
    \/ \E row \in Rows : WatchQueueCB(row) /\ Hist
    \/ \E id \in ClientIds : DeleteRecord(id) /\ Hist
    \/ Tick /\ Hist
    \/ \E id \in ClientIds : ExpireSweep(id) /\ Hist
    \/ CancelCtx /\ Hist
    \/ CloseOnDone /\ Hist

SpecSeq == InitOrg /\ [][NextSeq]_vars

\* enrolment alone writes the store, in the root org and in a tenant:
\* concurrent requests, lookups, record deletions and store failures
NextEnroll ==
    \/ \E c \in Callers, csr_pem \in CsrPems :
          AddCertificateRequest(c, csr_pem) /\ NoHist
    \/ \E c \in Callers, db_err, write_err \in BOOLEAN :
          SetPublicKey_SetSubject(c, db_err, write_err) /\ NoHist
    \/ \E c \in Callers, id \in ClientIds : GetPublicKey(c, id) /\ NoHist
    \/ \E c \in Callers, db_err, read_err \in BOOLEAN :
          GetPublicKey_GetSubject(c, db_err, read_err) /\ NoHist
    \/ \E c \in Callers : GetPublicKey_Set(c) /\ NoHist
    \/ \E id \in ClientIds : DeleteRecord(id) /\ NoHist

SpecEnroll == InitBuilt /\ [][NextEnroll]_vars

\* the negative cache over time: concurrent lookups, evictions, passing time
\* and expiry over a store that does not fail, with the deadlines recorded
NextTtl ==
    \/ \E c \in Callers, id \in ClientIds : GetPublicKey(c, id) /\ HistTtl
    \/ \E c \in Callers : GetPublicKey_GetSubject(c, FALSE, FALSE) /\ HistTtl
    \/ \E c \in Callers : GetPublicKey_Set(c) /\ HistTtl
    \/ \E id \in ClientIds : DeleteSubject(id) /\ HistTtl
    \/ Tick /\ HistTtl
    \/ \E id \in ClientIds : ExpireSweep(id) /\ HistTtl

SpecTtl == InitOrg /\ [][NextTtl]_vars

\* construction in every outcome, and what then runs: the calls on a
\* returned manager, the listener if subscribed, cancellation and the
\* closing goroutine if started
NextNew ==
    \/ \E id \in ClientIds : manager.returned /\ GetPublicKey(1, id) /\ NoHist
    \/ \E db_err, read_err \in BOOLEAN :
          GetPublicKey_GetSubject(1, db_err, read_err) /\ NoHist
    \/ GetPublicKey_Set(1) /\ NoHist
    \/ \E id \in ClientIds : manager.returned /\ DeleteSubject(id) /\ NoHist
    \/ \E row \in Rows : WatchQueueCB(row) /\ NoHist
    \/ CancelCtx /\ NoHist
    \/ CloseOnDone /\ NoHist

SpecNew == Init /\ [][NextNew]_vars

\* ------------------------------------------------------------------ claims

\* C1: over a store that does not fail, a lookup that returns to the caller
\* whose SetPublicKey(id, k) was the last to write the record of id, with no
\* bind or deletion of id since, returns (k, true).
C1_BindThenResolve ==
    (ev.kind = "GetPublicKey" /\ bound_by[ev.client_id] = ev.caller)
        => (ev.found /\ ev.ret_key = last_bound[ev.client_id])

\* C2: every key record that enrolment wrote sits under the client id derived
\* from the key it holds, qualified by the org; and a request is on its way
\* to the store only when its common name is the id derived from its own key.
C2_EnrolledKeyMatchesId ==
    /\ \A i \in Ids :
          StoredKey(store, i) # NoKey =>
             i = ClientIdFromConfigObj(ClientIDFromPublicKey(StoredKey(store, i)),
                                       config_obj)
    /\ \A c \in Callers :
          (pc[c] = "write" /\ frame[c].op = "AddCertificateRequest") =>
             /\ frame[c].common_name = ClientIDFromPublicKey(frame[c].key)
             /\ frame[c].client_id =
                   ClientIdFromConfigObj(frame[c].common_name, config_obj)

\* a mismatched request was just rejected while an enrolled record exists
C2_Witness ==
    /\ ev.kind = "AddCertificateRequest"
    /\ ev.err = "Invalid CSR"
    /\ \E i \in Ids : StoredKey(store, i) # NoKey

\* C3: a lookup returns found=true only on the path that read and decoded
\* the record, and only with the key the store holds for exactly that id at
\* the moment of the read.
C3_FoundKeyIsStoredKey ==
    (ev.kind = "GetPublicKey" /\ ev.found) =>
        /\ ev.path = "ok"
        /\ ev.reads = 1
        /\ ev.ret_key # NoKey
        /\ ev.ret_key = ev.saw_key
        /\ ev.ret_key = StoredKey(store, ev.client_id)

\* a key was returned while another id holds a different key
C3_Witness ==
    /\ ev.kind = "GetPublicKey"
    /\ ev.found
    /\ \E j \in ClientIds \ {ev.client_id} :
          StoredKey(store, j) \notin {NoKey, ev.ret_key}

\* C4: with a negative UnauthenticatedLruTimeoutSec no lookup is answered
\* from the negative cache.
C4_NegativeTtlDisablesCache ==
    (config_obj.Defaults.present
        /\ config_obj.Defaults.UnauthenticatedLruTimeoutSec < 0)
    => ~(ev.kind = "GetPublicKey" /\ ev.path = "negative_hit")

\* C5: a lookup that reads the store and finds no record has read it once,
\* goes on to insert a fresh item for the id and returns (nil, false); a
\* lookup started while the id has a live item returns (nil, false) at once,
\* with no store read and the store untouched.
C5_NegativeCaching ==
    [][ /\ \A c \in Callers :
              (pc[c] = "db" /\ pc'[c] # "db" /\ ev'.path # "no_db"
                  /\ ~store[Key(frame[c].client_id)].present)
              => (pc'[c] = "set" /\ ev'.reads = 1 /\ frame'[c].reads = 1)
        /\ \A c \in Callers :
              (pc[c] = "set" /\ pc'[c] # "set")
              => /\ ev'.kind = "GetPublicKey"
                 /\ ev'.caller = c
                 /\ ~ev'.found
                 /\ ev'.ret_key = NoKey
                 /\ ev'.reads = frame[c].reads
                 /\ store' = store
                 /\ \/ negative_lru.isShutDown
                    \/ /\ negative_lru'.items[frame[c].client_id] =
                             NewItem(negative_lru.ttl)
                       /\ Live(negative_lru', frame[c].client_id)
        /\ (LookupStarts /\ Live(negative_lru, ev'.client_id))
              => /\ ev'.kind = "GetPublicKey"
                 /\ ~ev'.found
                 /\ ev'.ret_key = NoKey
                 /\ ev'.reads = 0
                 /\ pc' = pc
                 /\ store' = store ]_vars

\* a lookup was answered from an item whose time to live has partly passed
C5_Witness ==
    /\ ev.kind = "GetPublicKey"
    /\ ev.path = "negative_hit"
    /\ negative_lru.items[ev.client_id].left < negative_lru.items[ev.client_id].ttl

\* C6: a lookup started when the id has no item, or an item whose time to
\* live has elapsed, goes to the store; when the store is obtained the call
\* reads it once, and returns the stored key with found=true if the read
\* works and the record decodes.
C6_ExpiredEntryRereads ==
    [][ /\ (LookupStarts
              /\ LET it == negative_lru.items[ev'.client_id]
                 IN ~it.present \/ (it.ttl > 0 /\ it.left < 0))
              => (ev'.kind = "get_miss" /\ pc'[ev'.caller] = "db")
        /\ \A c \in Callers :
              (pc[c] = "db" /\ pc'[c] # "db" /\ ev'.path # "no_db")
              => /\ ev'.reads = 1
                 /\ (StoredKey(store, frame[c].client_id) # NoKey
                        /\ ev'.path # "read_err")
                    => /\ ev'.kind = "GetPublicKey"
                       /\ ev'.found
                       /\ ev'.ret_key = StoredKey(store, frame[c].client_id) ]_vars

\* a key was returned for an id whose expired item is still in the cache
C6_Witness ==
    /\ ev.kind = "GetPublicKey"
    /\ ev.found
    /\ negative_lru.items[ev.client_id].present
    /\ Expired(negative_lru.items[ev.client_id])

C8_LastBindWins ==
    /\ \A i \in Ids :
          last_bound[i] # NoKey => StoredKey(store, i) = last_bound[i]
    /\ (ev.kind = "GetPublicKey" /\ last_bound[ev.client_id] # NoKey)
          => (ev.found /\ ev.ret_key = last_bound[ev.client_id])

\* a lookup returned the key of a bind that replaced another key
C8_Witness ==
    /\ ev.kind = "GetPublicKey"
    /\ ev.found
    /\ rebound[ev.client_id]
    /\ ev.ret_key = last_bound[ev.client_id]

\* C9: an enrolment whose store write fails returns the error and no id,
\* and leaves the record and the live negative item of the id as they were
\* when the call began.
C9_FailedEnrollHasNoEffect ==
    [][ \A c \in Callers :
           (pc[c] = "write" /\ pc'[c] = "idle"
               /\ frame[c].op = "AddCertificateRequest"
               /\ ev'.err = "write")
           => /\ ev'.path = "store_err"
              /\ ev'.ret_id = ""
              /\ store' = store
              /\ pre_neg[c] => Live(negative_lru', frame[c].client_id) ]_vars

\* C10: every lookup that returns found=false leaves a live item for the id
\* in the open cache, carrying the cache's time to live.
C10_FailureInsertsNegative ==
    (ev.kind = "GetPublicKey" /\ ~ev.found /\ ~negative_lru.isShutDown)
    => /\ negative_lru.items[ev.client_id].present
       /\ negative_lru.items[ev.client_id].ttl = negative_lru.ttl
       /\ Live(negative_lru, ev.client_id)

\* C11: a parseable request with an RSA key is accepted exactly when its
\* common name is the id derived from its key; an accepted request whose
\* write succeeds returns the id qualified by the org, the key is then the
\* record under exactly that id, and no other record has changed.
C11_EnrollSucceedsIffNameMatches ==
    [][ /\ \A c \in Callers, csr_pem \in CsrPems :
              (AddCertificateRequest(c, csr_pem) /\ csr_pem.wellformed
                  /\ csr_pem.PublicKeyAlgorithm = "RSA")
              => /\ (pc'[c] = "write") <=>
                       (csr_pem.CommonName = ClientIDFromPublicKey(csr_pem.PublicKey))
                 /\ (pc'[c] # "write") =>
                       (ev'.path = "rejected" /\ ev'.err = "Invalid CSR"
                           /\ ev'.ret_id = "")
        /\ \A c \in Callers :
              (pc[c] = "write" /\ frame[c].op = "AddCertificateRequest"
                  /\ pc'[c] = "idle" /\ ev'.err = "")
              => /\ ev'.kind = "AddCertificateRequest"
                 /\ ev'.ret_id =
                       ClientIdFromConfigObj(ClientIDFromPublicKey(frame[c].key),
                                             config_obj)
                 /\ StoredKey(store', ev'.ret_id) = frame[c].key
                 /\ \A j \in Ids \ {ev'.ret_id} :
                       store'[Key(j)] = store[Key(j)] ]_vars

\* an enrolment in a tenant returned the qualified id that holds its key
C11_Witness ==
    /\ ev.kind = "AddCertificateRequest"
    /\ ev.ret_id # ""
    /\ config_obj.OrgId # ""
    /\ StoredKey(store, ev.ret_id) # NoKey

\* C12: a request that does not parse fails as malformed; a parseable one
\* with another algorithm than RSA fails with "Not RSA algorithm" whatever
\* its common name; every rejected request leaves the store, the negative
\* cache and the callers as they were.
C12_RejectedEnrollChangesNothing ==
    [][ \A c \in Callers, csr_pem \in CsrPems :
           AddCertificateRequest(c, csr_pem)
           => /\ ~csr_pem.wellformed => ev'.err = "malformed"
              /\ (csr_pem.wellformed /\ csr_pem.PublicKeyAlgorithm # "RSA")
                    => ev'.err = "Not RSA algorithm"
              /\ ev'.err # ""
                    => /\ ev'.path = "rejected"
                       /\ ev'.ret_id = ""
                       /\ store' = store
                       /\ negative_lru' = negative_lru
                       /\ pc' = pc
                       /\ frame' = frame ]_vars

\* a request with another algorithm was rejected while the cache holds an item
C12_Witness ==
    /\ ev.kind = "AddCertificateRequest"
    /\ ev.err = "Not RSA algorithm"
    /\ \E i \in Ids : negative_lru.items[i].present

\* C13: once the context is cancelled, the wait group's counter is back at
\* zero only when the negative cache has been closed.
C13_CancelReleasesCache ==
    (ctx_done /\ wg = 0) => negative_lru.isShutDown

\* C14: every run of the listener's callback returns nil and leaves the
\* subscription, the store and the callers as they were; for a row without
\* ClientId the negative cache is unchanged too, for a row with one exactly
\* the item of that id is gone.
C14_ListenerSurvives ==
    [][ \A row \in Rows :
           WatchQueueCB(row)
           => /\ ev'.err = ""
              /\ listener' = "watching"
              /\ store' = store
              /\ pc' = pc
              /\ ~row.pres => negative_lru' = negative_lru
              /\ row.pres =>
                    /\ ~negative_lru'.items[row.ClientId].present
                    /\ \A j \in Ids \ {row.ClientId} :
                          negative_lru'.items[j] = negative_lru.items[j] ]_vars

\* right after a row without ClientId, a row with one evicted a live item
C14_Witness ==
    /\ after_bad = "good_after_bad"
    /\ ev.kind = "callback"
    /\ ev.found
    /\ evicted[ev.client_id] = "yes"
    /\ listener = "watching"

\* C15: a live negative item with a time to live never has a later deadline
\* than the one computed when the item was first inserted.
C15_DeadlineFixedAtInsertion ==
    \A i \in Ids :
       (Live(negative_lru, i) /\ negative_lru.items[i].ttl > 0
           /\ first_left[i].set)
       => negative_lru.items[i].left <= first_left[i].left

\* C16: every negative item of an id whose key is in the store carries a
\* time to live, so that it expires; only an item with a time to live ever
\* disappears without a SetPublicKey or DeleteSubject.
C16_NegativeEntryExpires ==
    \A i \in Ids :
       (StoredKey(store, i) # NoKey /\ negative_lru.items[i].present)
       => negative_lru.items[i].ttl > 0

\* C17: a manager is returned without error only with the listener
\* subscribed, and a failed subscription returns an error and no manager.
C17_ConstructionAllOrNothing ==
    /\ (manager.returned /\ manager.err = "") => listener = "watching"
    /\ listener = "failed" => (~manager.returned /\ manager.err # "")

\* C18: DeleteSubject(id) leaves the store, the callers and the items of all
\* other ids as they were, leaves no item for id, changes nothing when id
\* had no item, and a second DeleteSubject(id) would change nothing more.
C18_EvictOnlyThatEntry ==
    [][ \A id \in ClientIds :
           DeleteSubject(id)
           => /\ store' = store
              /\ pc' = pc
              /\ ev'.err = ""
              /\ ~negative_lru'.items[id].present
              /\ \A j \in Ids \ {id} :
                    negative_lru'.items[j] = negative_lru.items[j]
              /\ negative_lru'.ttl = negative_lru.ttl
              /\ negative_lru'.isShutDown = negative_lru.isShutDown
              /\ ~negative_lru.items[id].present => negative_lru' = negative_lru
              /\ LruRemove(negative_lru', id) = negative_lru' ]_vars

\* an eviction of a live item left the item of another id in the cache
C18_Witness ==
    /\ ev.kind = "DeleteSubject"
    /\ evicted[ev.client_id] = "yes"
    /\ ~negative_lru.items[ev.client_id].present
    /\ \E j \in Ids \ {ev.client_id} : Live(negative_lru, j)

\* C19: no step of a lookup writes the store, a lookup reads it at most
\* once, a lookup answered from the negative cache changes neither cache nor
\* store, and a lookup that returns a key has left the cache as it was in
\* each of its steps.
C19_ResolveFrame ==
    [][ /\ (LookupStarts \/ \E c \in Callers :
                               pc[c] \in {"db", "set"} /\ pc'[c] # pc[c])
              => (store' = store /\ ev'.reads <= 1)
        /\ LookupStarts => negative_lru' = negative_lru
        /\ \A c \in Callers :
              (pc[c] = "db" /\ pc'[c] # "db")
              => /\ negative_lru' = negative_lru
                 /\ ev'.found => (pc'[c] = "idle" /\ ev'.reads = 1) ]_vars

\* a key was returned while the cache holds a live item of another id
C19_Witness ==
    /\ ev.kind = "GetPublicKey"
    /\ ev.found
    /\ \E j \in Ids \ {ev.client_id} : Live(negative_lru, j)

====
